---- MODULE Spec2Model ----
(***************************************************************************)
(* Python clients of the Solana program library.                           *)
(*                                                                         *)
(* Stake-pool rebalance bot (stake-pool/py/bot/rebalance.py): get_client,  *)
(* then one pass of rebalance(): the reads that build the snapshot (epoch,  *)
(* pool account, rent exemption, validator list) with the pool update they *)
(* may trigger, the synchronous planning block that turns the snapshot into *)
(* a list of increase/decrease coroutines, and the asyncio.gather fan-out   *)
(* that runs them as tasks; and, between passes, the epoch rollover that    *)
(* settles what the pass moved.  All amounts are lamports.                 *)
(*                                                                         *)
(* Stake-pool actions (stake-pool/py/stake_pool/actions.py):               *)
(* update_stake_pool with its chunked list update, and the seed an increase *)
(* or decrease derives its transient stake account from.                   *)
(*                                                                         *)
(* Binary option client (binary-option/client/binary_option.py): topup,    *)
(* trade and collect.                                                      *)
(***************************************************************************)
EXTENDS Integers, Sequences, FiniteSets, TLC

VARIABLES
    pc,                         \* position of the running function / of asyncio.run
    epoch,                      \* epoch_resp.value.epoch, the cluster's epoch
    last_update_epoch,          \* stake_pool.last_update_epoch
    total_lamports,             \* stake_pool.total_lamports
    reserve_lamports,           \* lamports in the pool's reserve stake account
    validators,                 \* validator_list.validators, in list order
    stake_rent_exemption,       \* get_minimum_balance_for_rent_exemption(STAKE_LEN)
    retained_reserve_lamports,  \* int(retained_reserve_amount * LAMPORTS_PER_SOL)
    num_increases,              \* count taken against the provisional target
    lamports_per_validator,     \* the target the loop compares against
    futures,                    \* coroutines appended by the loop, in order
    task,                       \* state of the task gather() made of futures[i]
    error,                      \* exception that left the running function, or "none"
    current_attempt,            \* get_client: failed checks that were followed by a wait
    connect_checks,             \* get_client: calls of is_connected() made so far
    account_total,              \* total_lamports recorded in the pool account on the cluster
    transactions,               \* transactions handed to send_transaction, in order
    update_list_instructions,   \* update_stake_pool: the instructions built for the chunks
    transient_seed_suffix,      \* transient_seed_suffix of each entry of the validator list
    stake_calls,                \* increases and decreases called on their own, with their seeds
    method_call,                \* binary option client: the method called and its arguments
    ata,                        \* binary option client: state of each associated token account
    atas,                       \* binary option client: accounts looked up so far
    tx,                         \* binary option client: instructions added to the transaction
    result                      \* binary option client: status and msg of the JSON returned

vars == <<pc, epoch, last_update_epoch, total_lamports, reserve_lamports, validators, stake_rent_exemption,
          retained_reserve_lamports, num_increases, lamports_per_validator,
          futures, task, error, current_attempt, connect_checks, account_total,
          transactions, update_list_instructions, transient_seed_suffix,
          stake_calls, method_call, ata, atas, tx, result>>

\* What get_client keeps
client_vars == <<current_attempt, connect_checks>>

\* What the cluster keeps besides the accounts of the snapshot
cluster_vars == <<account_total, transactions>>

\* What the binary option client keeps
option_vars == <<method_call, ata, atas, tx, result>>

\* What a pass reads and plans without touching
outside_pass == <<client_vars, update_list_instructions, transient_seed_suffix,
                  stake_calls, option_vars>>

snapshot == <<total_lamports, reserve_lamports, validators, stake_rent_exemption,
              retained_reserve_lamports>>

epochs == <<epoch, last_update_epoch>>

----------------------------------------------------------------------------
(* Program constants *)

LAMPORTS_PER_SOL == 1000000000

MINIMUM_INCREASE_LAMPORTS == LAMPORTS_PER_SOL \div 100

\* stake_pool/constants.py
MAX_VALIDATORS_TO_UPDATE == 5

----------------------------------------------------------------------------
(* Bounds of the model *)

MaxValidators == 3

MaxActiveUnits == 3

\* Epochs that are told apart by their number; later ones are renumbered
MaxEpoch == 2

\* Longest validator list update_stake_pool is run on
MaxListLen == 11

\* Amounts of the enumerated snapshots are multiples of half the minimum
\* increase, so that deltas equal to the thresholds occur.
Unit == MINIMUM_INCREASE_LAMPORTS \div 2

\* Rent exemptions the rent oracle answers with: the amount for a 200-byte
\* stake account on the live cluster, and one on the amount grid.
RentValues == {2282880, Unit}

----------------------------------------------------------------------------
(* Helpers over the validator list *)

RECURSIVE SumField(_, _, _)
SumField(vals, f, i) ==
    IF i > Len(vals) THEN 0 ELSE vals[i][f] + SumField(vals, f, i + 1)

SumActive(vals) == SumField(vals, "active_stake_lamports", 1)

SumTransient(vals) == SumField(vals, "transient_stake_lamports", 1)

ValidatorStakeInfo(vote, active, transient) ==
    [vote_account_address |-> vote,
     active_stake_lamports |-> active,
     transient_stake_lamports |-> transient]

----------------------------------------------------------------------------
(* The planning block of rebalance(), lines 58-100 *)

\* line 63: (total_lamports - retained_reserve_lamports) // num_validators.
\* Python's // rounds toward minus infinity, as \div does.
ProvisionalLamportsPerValidator(total, retained, n) ==
    (total - retained) \div n

\* Variant: the loop does not look at the transient lamports
IsBusy_Never(validator) ==
    FALSE

\* line 74: the loop skips a validator with transient lamports
IsBusy(validator) ==
    validator.transient_stake_lamports # 0

\* Variant: the count only records whether any increase is due
CountIncreases_Flag(vals, lpv) ==
    IF \E i \in DOMAIN vals :
           /\ vals[i].transient_stake_lamports = 0
           /\ vals[i].active_stake_lamports < lpv
    THEN 1 ELSE 0

\* Variant: the comparison of line 66 is turned around
CountIncreases_AboveTarget(vals, lpv) ==
    Cardinality({i \in DOMAIN vals :
        /\ vals[i].transient_stake_lamports = 0
        /\ vals[i].active_stake_lamports > lpv})

\* lines 64-67
CountIncreases(vals, lpv) ==
    Cardinality({i \in DOMAIN vals :
        /\ vals[i].transient_stake_lamports = 0
        /\ vals[i].active_stake_lamports < lpv})

\* Variant: line 68 forgets the retained reserve that line 63 subtracts
TotalUsableLamports_NoRetained(total, retained, increases, rent) ==
    total - increases * rent

\* Variant: the rent of the transient accounts is not set aside
TotalUsableLamports_NoRent(total, retained, increases, rent) ==
    total - retained

\* line 68
TotalUsableLamports(total, retained, increases, rent) ==
    total - retained - increases * rent

\* Variant: the provisional target is kept
CorrectedLamportsPerValidator_Uncorrected(total, retained, increases, rent, n) ==
    (total - retained) \div n

\* Variant: the rent of the counted increases is set aside twice
CorrectedLamportsPerValidator_Twice(total, retained, increases, rent, n) ==
    (TotalUsableLamports(total, retained, increases, rent) - increases * rent) \div n

\* line 69
CorrectedLamportsPerValidator(total, retained, increases, rent, n) ==
    TotalUsableLamports(total, retained, increases, rent) \div n

\* Variant: every decrease is requested, however small
SkipDecrease_Never(lamports_to_decrease, rent) ==
    FALSE

\* line 79
SkipDecrease(lamports_to_decrease, rent) ==
    lamports_to_decrease <= rent

\* Variant: an increase of exactly the minimum is skipped too
SkipIncrease_Inclusive(lamports_to_increase) ==
    lamports_to_increase <= MINIMUM_INCREASE_LAMPORTS

\* line 90
SkipIncrease(lamports_to_increase) ==
    lamports_to_increase < MINIMUM_INCREASE_LAMPORTS

\* Variant: the decrease is requested one lamport short
DecreaseCall_OneShort(vote, lamports) ==
    [kind |-> "decrease", validator_vote |-> vote, lamports |-> lamports - 1]

\* Variant: every decrease is addressed to the first validator of the list
DecreaseCall_FirstValidator(vote, lamports) ==
    [kind |-> "decrease", validator_vote |-> 1, lamports |-> lamports]

DecreaseCall(vote, lamports) ==
    [kind |-> "decrease", validator_vote |-> vote, lamports |-> lamports]

\* Variant: every increase is addressed to the first validator of the list
IncreaseCall_FirstValidator(vote, lamports) ==
    [kind |-> "increase", validator_vote |-> 1, lamports |-> lamports]

IncreaseCall(vote, lamports) ==
    [kind |-> "increase", validator_vote |-> vote, lamports |-> lamports]

\* lines 74-100: what one iteration of the loop appends to futures
LoopBody(validator, lpv, rent) ==
    IF IsBusy(validator) THEN <<>>
    ELSE IF validator.active_stake_lamports > lpv
        THEN LET lamports_to_decrease == validator.active_stake_lamports - lpv
             IN  IF SkipDecrease(lamports_to_decrease, rent) THEN <<>>
                 ELSE <<DecreaseCall(validator.vote_account_address, lamports_to_decrease)>>
    ELSE IF validator.active_stake_lamports < lpv
        THEN LET lamports_to_increase == lpv - validator.active_stake_lamports
             IN  IF SkipIncrease(lamports_to_increase) THEN <<>>
                 ELSE <<IncreaseCall(validator.vote_account_address, lamports_to_increase)>>
    ELSE <<>>

\* lines 72-100: the loop over validator_list.validators, from index i on
RECURSIVE BuildFutures(_, _, _, _)
BuildFutures(vals, i, lpv, rent) ==
    IF i > Len(vals) THEN <<>>
    ELSE LoopBody(vals[i], lpv, rent) \o BuildFutures(vals, i + 1, lpv, rent)

\* lines 58-100.  With an empty validator list line 63 divides by zero and
\* ZeroDivisionError leaves rebalance() before anything else is computed.
RebalancePlan ==
    /\ pc = "plan"
    /\ LET n == Len(validators) IN
       IF n = 0
       THEN /\ pc' = "raised"
            /\ error' = "ZeroDivisionError"
            /\ UNCHANGED <<num_increases, lamports_per_validator, futures>>
       ELSE LET provisional == ProvisionalLamportsPerValidator(
                                   total_lamports, retained_reserve_lamports, n)
                increases == CountIncreases(validators, provisional)
                lpv == CorrectedLamportsPerValidator(
                           total_lamports, retained_reserve_lamports,
                           increases, stake_rent_exemption, n)
            IN  /\ num_increases' = increases
                /\ lamports_per_validator' = lpv
                /\ futures' = BuildFutures(validators, 1, lpv, stake_rent_exemption)
                /\ pc' = "gather"
                /\ error' = "none"
    /\ UNCHANGED <<snapshot, epochs, task>>
    /\ UNCHANGED <<outside_pass, cluster_vars>>

----------------------------------------------------------------------------
(* Snapshots *)

\* Validator lists of length n with amounts on the grid; the vote account of
\* the i-th entry is i.
ValidatorLists(n, activeUnits, transientUnits) ==
    {[i \in 1..n |-> ValidatorStakeInfo(i, c[i][1] * Unit, c[i][2] * Unit)] :
        c \in [1..n -> activeUnits \X transientUnits]}

\* The epoch of the cluster when the pass starts
FirstEpoch == 1

\* Retained reserves: the --reserve_amount of the command line, on the grid
\* and one lamport to either side of it
RetainedValues ==
    {0, 1, Unit - 1, Unit, Unit + 1, 2 * Unit, 3 * Unit}

\* No call of the binary option client is under way
NoCall ==
    [op |-> "none", to |-> "none", amount |-> "none", skip_confirmation |-> TRUE]

\* Nothing was returned yet
NoResult == [status |-> "none", msg |-> ""]

\* The binary option client is not in use
OptionIdle ==
    /\ method_call = NoCall
    /\ ata = <<>>
    /\ atas = <<>>
    /\ tx = <<>>
    /\ result = NoResult

\* Every validator's transient_seed_suffix as add_validator_to_pool leaves it
NoSeeds(vals) ==
    [v \in {vals[i].vote_account_address : i \in DOMAIN vals} |-> 0]

\* Nothing but the pass has run: the client is not asked for yet, no
\* transaction was sent, no action was called on its own, and the binary
\* option client is not in use.
OutsidePassIdle ==
    /\ current_attempt = 0
    /\ connect_checks = 0
    /\ transactions = <<>>
    /\ update_list_instructions = <<>>
    /\ stake_calls = <<>>
    /\ OptionIdle

\* The accounts of the pool as the cluster serves them to the reads of
\* lines 36-56, the pool's total being the reserve plus the stake of the
\* listed validators, and the retained reserve of the command line.  The
\* reserve is counted above the minimum the reserve account keeps for itself.
PoolIs(vals, reserve, retained, rent) ==
    /\ validators = vals
    /\ reserve_lamports = reserve
    /\ total_lamports = reserve + SumActive(vals) + SumTransient(vals)
    /\ retained_reserve_lamports = retained
    /\ stake_rent_exemption = rent
    /\ epoch = FirstEpoch
    /\ num_increases = 0
    /\ lamports_per_validator = 0
    /\ futures = <<>>
    /\ task = <<>>
    /\ error = "none"
    /\ transient_seed_suffix = NoSeeds(vals)
    /\ OutsidePassIdle

\* The state at line 58: the pool was updated in this epoch, and the pool
\* account, the rent exemption and the validator list are read.
InitWith(vals, reserve, retained, rent) ==
    /\ PoolIs(vals, reserve, retained, rent)
    /\ last_update_epoch = epoch
    /\ account_total = total_lamports
    /\ pc = "plan"

\* What the stake accounts hold that the pool account does not record yet:
\* the rewards paid since the pool was last updated.
Unrecorded(vals, behind) ==
    IF behind > 0 /\ SumActive(vals) > 0 THEN Unit ELSE 0

\* The lamports the pool holds in its reserve and in the stake accounts of
\* the listed validators
PoolLamports ==
    reserve_lamports + SumActive(validators) + SumTransient(validators)

\* The state at line 36: the client is connected and nothing is read yet;
\* the pool was last updated `behind` epochs ago, and its account records
\* the total of that time.
InitPassWith(vals, reserve, retained, rent, behind) ==
    /\ PoolIs(vals, reserve, retained, rent)
    /\ last_update_epoch = epoch - behind
    /\ account_total = PoolLamports - Unrecorded(vals, behind)
    /\ pc = "get_epoch_info"

InitGrid ==
    \E n \in 0..MaxValidators :
      \E vals \in ValidatorLists(n, 0..MaxActiveUnits, 0..1) :
        \E rs \in 0..4, retained \in RetainedValues, rent \in RentValues :
            InitWith(vals, rs * Unit, retained, rent)

\* A deposit has just filled the reserve (tests/test_bot_rebalance.py 26-37):
\* it holds at least four units for each validator, and nothing is retained
\* or in transit.
InitAfterDeposit ==
    \E n \in 1..MaxValidators :
      \E vals \in ValidatorLists(n, 0..1, {0}) :
        \E extra \in 0..(n - 1), rent \in RentValues :
            InitWith(vals, 4 * n * Unit + extra, 0, rent)

\* Scenario A, B and C of the specification's testable properties
InitScenarioA ==
    InitWith([i \in 1..3 |-> ValidatorStakeInfo(i, 0, 0)], 300000000, 0, 2282880)

InitScenarioB ==
    InitWith([i \in 1..3 |-> ValidatorStakeInfo(i, 97717120, 0)], 6848640, 0, 2282880)

InitScenarioC ==
    InitWith(<<ValidatorStakeInfo(1, 99239540, 0),
               ValidatorStakeInfo(2, 50000000, 0),
               ValidatorStakeInfo(3, 140000000, 0)>>, 10760460, 0, 2282880)

----------------------------------------------------------------------------
(* update_stake_pool, stake_pool/actions.py 397-484 *)

Min(a, b) == IF a < b THEN a ELSE b

\* lines 407-410: slices of MAX_VALIDATORS_TO_UPDATE consecutive validators,
\* the last one being shorter when the length is no multiple of it
ValidatorChunks(vals) ==
    [k \in 1..((Len(vals) + MAX_VALIDATORS_TO_UPDATE - 1) \div MAX_VALIDATORS_TO_UPDATE) |->
        SubSeq(vals, MAX_VALIDATORS_TO_UPDATE * (k - 1) + 1,
                     Min(MAX_VALIDATORS_TO_UPDATE * k, Len(vals)))]

\* lines 415-421: the address is derived from the vote account
ValidatorStakeAddress(validator) ==
    [account |-> "validator_stake", vote |-> validator.vote_account_address]

\* lines 422-428: the address is derived from the vote account and from the
\* validator's transient_seed_suffix
TransientStakeAddress(validator) ==
    [account |-> "transient_stake", vote |-> validator.vote_account_address,
     seed |-> transient_seed_suffix[validator.vote_account_address]]

\* lines 413-428: the two addresses of every validator of the chunk, the
\* validator's before the transient one, in the order of the chunk
StakePairs(chunk) ==
    [j \in 1..(2 * Len(chunk)) |->
        IF j % 2 = 1 THEN ValidatorStakeAddress(chunk[(j + 1) \div 2])
                     ELSE TransientStakeAddress(chunk[j \div 2])]

\* lines 429-445
UpdateValidatorListBalance(pairs, start_index) ==
    [instruction |-> "update_validator_list_balance",
     validator_and_transient_stake_pairs |-> pairs,
     start_index |-> start_index]

\* Variant: the index moves on by one for every chunk
NextStartIndex_ByOne(start_index) == start_index + 1

\* line 446
NextStartIndex(start_index) == start_index + MAX_VALIDATORS_TO_UPDATE

\* lines 411-446: the loop over the chunks, from the k-th on
RECURSIVE UpdateListInstructions(_, _, _)
UpdateListInstructions(chunks, k, start_index) ==
    IF k > Len(chunks) THEN <<>>
    ELSE <<UpdateValidatorListBalance(StakePairs(chunks[k]), start_index)>>
             \o UpdateListInstructions(chunks, k + 1, NextStartIndex(start_index))

\* lines 459-482: the transaction that closes the update
BalanceInstructions ==
    <<[instruction |-> "update_stake_pool_balance"],
      [instruction |-> "cleanup_removed_validator_entries"]>>

\* A transaction handed to send_transaction, and whether the cluster has
\* confirmed it
Transaction(instructions, confirmed) ==
    [instructions |-> instructions, confirmed |-> confirmed]

\* Every transaction of an update that ran to its end and was confirmed
UpdateStakePoolTransactions(vals) ==
    LET instrs == UpdateListInstructions(ValidatorChunks(vals), 1, 0)
    IN  [k \in DOMAIN instrs |-> Transaction(<<instrs[k]>>, TRUE)]
            \o <<Transaction(BalanceInstructions, TRUE)>>

\* What update_stake_pool leaves as it is
outside_update ==
    <<snapshot, epochs, num_increases, lamports_per_validator, futures, task,
      client_vars, account_total, transient_seed_suffix, stake_calls,
      option_vars>>

\* lines 399-446: both accounts are read and decoded, and one instruction is
\* built for every chunk
UpdateBuild ==
    /\ pc = "update_read"
    /\ update_list_instructions' =
           UpdateListInstructions(ValidatorChunks(validators), 1, 0)
    /\ pc' = IF update_list_instructions' # <<>> THEN "update_send_list"
                                                 ELSE "update_send_balance"
    /\ UNCHANGED <<error, transactions, outside_update>>

\* One of the reads of lines 399-404 raises, or its answer cannot be decoded
UpdateReadFail ==
    /\ pc = "update_read"
    /\ pc' = "raised"
    /\ error' = "update_read"
    /\ UNCHANGED <<transactions, update_list_instructions, outside_update>>

\* lines 449-454: an instruction that is not the last one is sent in a
\* transaction of its own with skip_confirmation=True; send_transaction
\* returns as soon as the cluster has taken the transaction.
UpdateSendInstruction ==
    /\ pc = "update_send_list"
    /\ Len(transactions) + 1 < Len(update_list_instructions)
    /\ transactions' = Append(transactions,
           Transaction(<<update_list_instructions[Len(transactions) + 1]>>, FALSE))
    /\ UNCHANGED <<pc, error, update_list_instructions, outside_update>>

\* lines 448, 455-458: the popped last instruction is sent with OPTS;
\* send_transaction returns when the transaction is confirmed.
UpdateSendLastInstruction ==
    /\ pc = "update_send_list"
    /\ Len(transactions) + 1 = Len(update_list_instructions)
    /\ transactions' = Append(transactions,
           Transaction(<<update_list_instructions[Len(transactions) + 1]>>, TRUE))
    /\ pc' = "update_send_balance"
    /\ UNCHANGED <<error, update_list_instructions, outside_update>>

\* lines 459-484: the closing transaction is sent with OPTS
UpdateSendBalance ==
    /\ pc = "update_send_balance"
    /\ transactions' = Append(transactions, Transaction(BalanceInstructions, TRUE))
    /\ pc' = "updated"
    /\ UNCHANGED <<error, update_list_instructions, outside_update>>

\* get_latest_blockhash or send_transaction raises (lines 452-454, 457-458,
\* 483-484): nothing catches it, update_stake_pool ends with the exception.
UpdateSendFail ==
    /\ pc \in {"update_send_list", "update_send_balance"}
    /\ pc' = "raised"
    /\ error' = "RPCException"
    /\ UNCHANGED <<transactions, update_list_instructions, outside_update>>

\* The cluster confirms a transaction that was sent without waiting for it
ClusterConfirm(k) ==
    /\ ~transactions[k].confirmed
    /\ transactions' = [transactions EXCEPT ![k].confirmed = TRUE]
    /\ UNCHANGED <<pc, error, update_list_instructions, outside_update>>

----------------------------------------------------------------------------
(* get_client, bot/rebalance.py 19-30 *)

\* line 22
total_attempts == 10

\* line 26
CouldNotConnect == "Could not connect to test validator"

\* lines 24, 30: is_connected() answers True, the loop ends and the client
\* is returned to line 34
IsConnected ==
    /\ pc = "get_client"
    /\ connect_checks' = connect_checks + 1
    /\ pc' = "get_epoch_info"
    /\ UNCHANGED <<snapshot, epochs, num_increases, lamports_per_validator, futures,
                   task, error, current_attempt, cluster_vars,
                   update_list_instructions, transient_seed_suffix,
                   stake_calls, option_vars>>

\* lines 24-29: is_connected() answers False.  With the counter at
\* total_attempts the exception is raised; otherwise the counter goes up by
\* one and the loop sleeps a second before it checks again.
NotConnected ==
    /\ pc = "get_client"
    /\ connect_checks' = connect_checks + 1
    /\ IF current_attempt = total_attempts
          THEN /\ pc' = "raised"
               /\ error' = CouldNotConnect
               /\ UNCHANGED current_attempt
          ELSE /\ current_attempt' = current_attempt + 1
               /\ UNCHANGED <<pc, error>>
    /\ UNCHANGED <<snapshot, epochs, num_increases, lamports_per_validator, futures,
                   task, cluster_vars, update_list_instructions,
                   transient_seed_suffix, stake_calls, option_vars>>

----------------------------------------------------------------------------
(* The reads of rebalance(), lines 36-56 *)

\* The awaited calls whose answers make up the snapshot
SnapshotReads ==
    {"get_epoch_info", "get_stake_pool", "get_stake_pool_again",
     "get_rent_exemption", "get_validator_list"}

\* lines 36-37
GetEpochInfo ==
    /\ pc = "get_epoch_info"
    /\ pc' = "get_stake_pool"
    /\ UNCHANGED <<snapshot, epochs, num_increases, lamports_per_validator, futures, task, error>>
    /\ UNCHANGED <<outside_pass, cluster_vars>>

\* lines 38-43: the pool account is read and decoded, and its
\* last_update_epoch compared with the epoch
GetStakePool ==
    /\ pc = "get_stake_pool"
    /\ total_lamports' = account_total
    /\ pc' = IF last_update_epoch # epoch THEN "update_stake_pool"
                                           ELSE "get_rent_exemption"
    /\ UNCHANGED <<reserve_lamports, validators, stake_rent_exemption,
                   retained_reserve_lamports, epochs, num_increases,
                   lamports_per_validator, futures, task, error>>
    /\ UNCHANGED <<outside_pass, cluster_vars>>

\* lines 44-45 (actions.py 397-484): update_stake_pool returns, its
\* transactions are confirmed and the pool is up to date for this epoch: the
\* pool account records what the pool holds now.
UpdateStakePool ==
    /\ pc = "update_stake_pool"
    /\ last_update_epoch' = epoch
    /\ account_total' = PoolLamports
    /\ transactions' = transactions \o UpdateStakePoolTransactions(validators)
    /\ pc' = "get_stake_pool_again"
    /\ UNCHANGED <<snapshot, epoch, num_increases, lamports_per_validator, futures, task, error>>
    /\ UNCHANGED outside_pass

\* A read or a transaction of update_stake_pool raises; rebalance() has no
\* handler around line 45.
UpdateStakePoolFail ==
    /\ pc = "update_stake_pool"
    /\ pc' = "raised"
    /\ error' = "update_stake_pool"
    /\ UNCHANGED <<snapshot, epochs, num_increases, lamports_per_validator, futures, task>>
    /\ UNCHANGED <<outside_pass, cluster_vars>>

\* Variant: the pool account decoded before the update is kept
GetStakePoolAgain_Kept ==
    /\ pc = "get_stake_pool_again"
    /\ pc' = "get_rent_exemption"
    /\ UNCHANGED <<snapshot, epochs, num_increases, lamports_per_validator, futures, task, error>>
    /\ UNCHANGED <<outside_pass, cluster_vars>>

\* lines 46-48: the pool account is read and decoded again
GetStakePoolAgain ==
    /\ pc = "get_stake_pool_again"
    /\ total_lamports' = account_total
    /\ pc' = "get_rent_exemption"
    /\ UNCHANGED <<reserve_lamports, validators, stake_rent_exemption,
                   retained_reserve_lamports, epochs, num_increases,
                   lamports_per_validator, futures, task, error>>
    /\ UNCHANGED <<outside_pass, cluster_vars>>

\* lines 50-52
GetRentExemption ==
    /\ pc = "get_rent_exemption"
    /\ pc' = "get_validator_list"
    /\ UNCHANGED <<snapshot, epochs, num_increases, lamports_per_validator, futures, task, error>>
    /\ UNCHANGED <<outside_pass, cluster_vars>>

\* lines 54-56
GetValidatorList ==
    /\ pc = "get_validator_list"
    /\ pc' = "plan"
    /\ UNCHANGED <<snapshot, epochs, num_increases, lamports_per_validator, futures, task, error>>
    /\ UNCHANGED <<outside_pass, cluster_vars>>

\* Variant: the failed read is reported and the pass goes on to plan
ReadFail_Continue ==
    /\ pc \in SnapshotReads
    /\ error' = pc
    /\ pc' = "plan"
    /\ UNCHANGED <<snapshot, epochs, num_increases, lamports_per_validator, futures, task>>
    /\ UNCHANGED <<outside_pass, cluster_vars>>

\* One of the awaited reads raises, or its answer cannot be decoded.  None
\* of lines 36-56 is inside a try: the exception leaves rebalance().  The
\* error names the call that raised.
ReadFail ==
    /\ pc \in SnapshotReads
    /\ error' = pc
    /\ pc' = "raised"
    /\ UNCHANGED <<snapshot, epochs, num_increases, lamports_per_validator, futures, task>>
    /\ UNCHANGED <<outside_pass, cluster_vars>>

----------------------------------------------------------------------------
(* The fan-out of rebalance(), lines 102-105, and the tasks it awaits *)

Task(status, submitted) == [status |-> status, submitted |-> submitted]

Unfinished(t) == t.status \in {"scheduled", "sending"}

\* line 103: gather() wraps every coroutine of futures in a task and
\* schedules it; rebalance() is suspended until gather's future resolves.
GatherDispatch ==
    /\ pc = "gather"
    /\ task' = [i \in DOMAIN futures |-> Task("scheduled", FALSE)]
    /\ pc' = "await"
    /\ UNCHANGED <<snapshot, epochs, num_increases, lamports_per_validator, futures, error>>
    /\ UNCHANGED <<outside_pass, cluster_vars>>

\* increase_validator_stake / decrease_validator_stake up to the call of
\* send_transaction (actions.py 496-589, 601-691): the two account reads
\* succeed, the instruction is built and the transaction is submitted.
TaskSubmit(i) ==
    /\ pc \in {"await", "raised"}
    /\ task[i].status = "scheduled"
    /\ task' = [task EXCEPT ![i] = Task("sending", TRUE)]
    /\ UNCHANGED <<pc, snapshot, epochs, num_increases, lamports_per_validator, futures, error>>
    /\ UNCHANGED <<outside_pass, cluster_vars>>

\* One of the reads of the action raises (actions.py 496-502, 601-607):
\* the task ends with the exception and no transaction was submitted.
TaskReadFail(i) ==
    /\ pc \in {"await", "raised"}
    /\ task[i].status = "scheduled"
    /\ task' = [task EXCEPT ![i] = Task("failed", FALSE)]
    /\ UNCHANGED <<pc, snapshot, epochs, num_increases, lamports_per_validator, futures, error>>
    /\ UNCHANGED <<outside_pass, cluster_vars>>

\* What the confirmed transaction of a call takes out of the reserve: an
\* increase moves its lamports and the rent exemption of the transient
\* account (tests/test_bot_rebalance.py 40-49), a decrease leaves the
\* reserve as it is until the epoch ends (tests/test_bot_rebalance.py 56-59).
ReserveDebit(call, rent) ==
    IF call.kind = "increase" THEN call.lamports + rent ELSE 0

\* The cluster executes a transaction only if the reserve holds what it
\* takes: a plan that asks for more than the reserve can fund fails on chain.
ReserveCovers(call) ==
    reserve_lamports >= ReserveDebit(call, stake_rent_exemption)

\* send_transaction returns after confirmation (OPTS, skip_confirmation=False).
\* Both instructions write the reserve stake account (instructions.py
\* 1068-1097, 1196-1222).
TaskConfirm(i) ==
    /\ pc \in {"await", "raised"}
    /\ task[i].status = "sending"
    /\ ReserveCovers(futures[i])
    /\ reserve_lamports' = reserve_lamports - ReserveDebit(futures[i], stake_rent_exemption)
    /\ task' = [task EXCEPT ![i] = Task("confirmed", TRUE)]
    /\ UNCHANGED <<pc, total_lamports, validators, stake_rent_exemption,
                   retained_reserve_lamports, epochs, num_increases,
                   lamports_per_validator, futures, error>>
    /\ UNCHANGED <<outside_pass, cluster_vars>>

\* Variant: an action whose transaction was rejected runs again
TaskReject_Retry(i) ==
    /\ pc \in {"await", "raised"}
    /\ task[i].status = "sending"
    /\ task' = [task EXCEPT ![i] = Task("scheduled", TRUE)]
    /\ UNCHANGED <<pc, snapshot, epochs, num_increases, lamports_per_validator, futures, error>>
    /\ UNCHANGED <<outside_pass, cluster_vars>>

\* send_transaction raises: the transaction was rejected.  Nothing in the
\* action or in rebalance() catches it, so the task ends with the exception.
TaskReject(i) ==
    /\ pc \in {"await", "raised"}
    /\ task[i].status = "sending"
    /\ task' = [task EXCEPT ![i] = Task("failed", TRUE)]
    /\ UNCHANGED <<pc, snapshot, epochs, num_increases, lamports_per_validator, futures, error>>
    /\ UNCHANGED <<outside_pass, cluster_vars>>

\* line 103: gather() without return_exceptions propagates the first
\* exception of a task to its awaiter at once; the other tasks are neither
\* awaited nor cancelled by gather.  rebalance() has no handler: it ends.
GatherRaise ==
    /\ pc = "await"
    /\ \E i \in DOMAIN task : task[i].status = "failed"
    /\ pc' = "raised"
    /\ error' = "RPCException"
    /\ UNCHANGED <<snapshot, epochs, num_increases, lamports_per_validator, futures, task>>
    /\ UNCHANGED <<outside_pass, cluster_vars>>

\* lines 103-104: every task returned, gather resolves, 'Done' is printed
GatherReturn ==
    /\ pc = "await"
    /\ \A i \in DOMAIN task : task[i].status = "confirmed"
    /\ pc' = "done"
    /\ UNCHANGED <<snapshot, epochs, num_increases, lamports_per_validator, futures, task, error>>
    /\ UNCHANGED <<outside_pass, cluster_vars>>

\* line 105
Close ==
    /\ pc = "done"
    /\ pc' = "closed"
    /\ UNCHANGED <<snapshot, epochs, num_increases, lamports_per_validator, futures, task, error>>
    /\ UNCHANGED <<outside_pass, cluster_vars>>

\* line 135: asyncio.run() ends when rebalance() has ended; on its way out
\* it cancels every task still pending on the loop and closes the loop.
RunTeardown ==
    /\ pc = "raised"
    /\ pc' = "exited"
    /\ task' = [i \in DOMAIN task |->
                   IF Unfinished(task[i]) THEN Task("cancelled", task[i].submitted)
                   ELSE task[i]]
    /\ UNCHANGED <<snapshot, epochs, num_increases, lamports_per_validator, futures, error>>
    /\ UNCHANGED <<outside_pass, cluster_vars>>

----------------------------------------------------------------------------
(* From one pass to the next *)

\* The validator list one epoch after a pass whose actions all succeeded:
\* a validator the plan acted on holds the target it was moved to, and no
\* validator has lamports in transit any more.
RolledOver(vals, plan, lpv) ==
    [i \in DOMAIN vals |->
        ValidatorStakeInfo(
            vals[i].vote_account_address,
            IF \E k \in DOMAIN plan :
                   plan[k].validator_vote = vals[i].vote_account_address
               THEN lpv ELSE vals[i].active_stake_lamports,
            0)]

\* The epoch ends after a completed pass and the bot is run again.  The
\* pool's total, the retained reserve and the rent exemption stay as they
\* are; what is not on the validators is in the reserve.  The code compares
\* epochs for equality only (line 43), so past MaxEpoch both epoch numbers
\* are counted from one epoch later.  The new run has sent nothing yet.
EpochRollover ==
    /\ pc = "closed"
    /\ validators' = RolledOver(validators, futures, lamports_per_validator)
    /\ reserve_lamports' = total_lamports - SumActive(validators')
    /\ IF epoch < MaxEpoch
          THEN epoch' = epoch + 1 /\ UNCHANGED last_update_epoch
          ELSE UNCHANGED epoch /\ last_update_epoch' = last_update_epoch - 1
    /\ pc' = "get_epoch_info"
    /\ task' = <<>>
    /\ UNCHANGED <<total_lamports, stake_rent_exemption, retained_reserve_lamports,
                   num_increases, lamports_per_validator, futures, error>>
    /\ transactions' = <<>>
    /\ UNCHANGED <<outside_pass, account_total>>

----------------------------------------------------------------------------
(* increase_validator_stake and decrease_validator_stake called on their
   own, stake_pool/actions.py 487-691 *)

\* Calls made in one epoch
MaxCalls == 3

\* What a validator holds when it was added to the pool
MinimumActive == 2 * Unit

\* The ephemeral_stake_seed argument: None, or the seed of the test
EphemeralSeeds == {<<>>, <<0>>}

\* Variant: the seed is bumped whatever the call
TransientStakeSeed_AlwaysBump(suffix, ephemeral_stake_seed) == suffix + 1

\* lines 507-511 and 619-623
TransientStakeSeed(suffix, ephemeral_stake_seed) ==
    IF ephemeral_stake_seed = <<>> THEN suffix + 1 ELSE suffix

\* A call, the seed it derived the transient account from, and the lamports
\* its transaction put into that account
StakeCall(kind, vote, suffix, seed, ephemeral_stake_seed, credited) ==
    [kind |-> kind, validator_vote |-> vote, suffix_before |-> suffix,
     transient_stake_seed |-> seed, ephemeral |-> ephemeral_stake_seed # <<>>,
     credited |-> credited]

\* What the action leaves as it is
outside_calls ==
    <<pc, total_lamports, stake_rent_exemption, retained_reserve_lamports, epochs,
      num_increases, lamports_per_validator, futures, task, error, client_vars,
      cluster_vars, update_list_instructions, option_vars>>

\* actions.py 487-589, with the effect of the confirmed transaction as
\* tests/test_a_time_sensitive.py 30-59 observes it: the transient stake of
\* the validator grows by the lamports and one rent exemption, out of the
\* reserve, its active stake stays, and the list records the seed.  A call
\* without ephemeral seed is made on a validator with nothing in transit, a
\* call with one on a validator whose transient account exists (line 530).
IncreaseValidatorStake(i, lamports, ephemeral_stake_seed) ==
    /\ pc = "calls"
    /\ Len(stake_calls) < MaxCalls
    /\ (ephemeral_stake_seed = <<>>) <=> (validators[i].transient_stake_lamports = 0)
    /\ reserve_lamports >= lamports + stake_rent_exemption
    /\ LET vote == validators[i].vote_account_address
           seed == TransientStakeSeed(transient_seed_suffix[vote], ephemeral_stake_seed)
       IN  /\ stake_calls' = Append(stake_calls,
                  StakeCall("increase", vote, transient_seed_suffix[vote], seed,
                            ephemeral_stake_seed, lamports + stake_rent_exemption))
           /\ transient_seed_suffix' = [transient_seed_suffix EXCEPT ![vote] = seed]
    /\ validators' = [validators EXCEPT ![i].transient_stake_lamports =
                          @ + lamports + stake_rent_exemption]
    /\ reserve_lamports' = reserve_lamports - lamports - stake_rent_exemption
    /\ UNCHANGED outside_calls

\* actions.py 592-691.  A decrease without ephemeral seed moves the lamports
\* from the active stake into a new transient account, whose rent exemption
\* comes out of the reserve (tests/test_a_time_sensitive.py 73-87).  With an
\* ephemeral seed the call derives its seed, and its transaction moves
\* nothing (tests/test_a_time_sensitive.py 89).
DecreaseValidatorStake(i, lamports, ephemeral_stake_seed) ==
    /\ pc = "calls"
    /\ Len(stake_calls) < MaxCalls
    /\ (ephemeral_stake_seed = <<>>) <=> (validators[i].transient_stake_lamports = 0)
    /\ validators[i].active_stake_lamports >= lamports
    /\ reserve_lamports >= stake_rent_exemption
    /\ LET vote == validators[i].vote_account_address
           seed == TransientStakeSeed(transient_seed_suffix[vote], ephemeral_stake_seed)
           moved == ephemeral_stake_seed = <<>>
       IN  /\ stake_calls' = Append(stake_calls,
                  StakeCall("decrease", vote, transient_seed_suffix[vote], seed,
                            ephemeral_stake_seed,
                            IF moved THEN lamports + stake_rent_exemption ELSE 0))
           /\ IF moved
              THEN /\ transient_seed_suffix' = [transient_seed_suffix EXCEPT ![vote] = seed]
                   /\ validators' = [validators EXCEPT
                          ![i].transient_stake_lamports = lamports + stake_rent_exemption,
                          ![i].active_stake_lamports = @ - lamports]
                   /\ reserve_lamports' = reserve_lamports - stake_rent_exemption
              ELSE UNCHANGED <<transient_seed_suffix, validators, reserve_lamports>>
    /\ UNCHANGED outside_calls

----------------------------------------------------------------------------
(* The binary option client, binary-option/client/binary_option.py *)

\* What the client leaves as it is
outside_option ==
    <<snapshot, epochs, num_increases, lamports_per_validator, futures, task,
      client_vars, account_total, update_list_instructions,
      transient_seed_suffix, stake_calls>>

\* The mints of a pool in the order the loops of lines 234 and 340 take them
Mints == <<"long", "short", "escrow">>

\* The associated token accounts trade looks up, in the order of lines
\* 232-234, and those collect looks up, in the order of line 340
Lookups(op) ==
    IF op = "trade"
    THEN [k \in 1..6 |-> <<IF k <= 3 THEN "buyer" ELSE "seller", Mints[((k - 1) % 3) + 1]>>]
    ELSE [k \in 1..3 |-> <<"collector", Mints[k]>>]

\* What get_account_info can find at the address of an associated token
\* account: nothing, or an account in one of the states of ACCOUNT_LAYOUT
AtaStates == {"missing", "uninitialized", "initialized", "frozen"}

\* lines 237-241, 343-347: the state decoded from the account, 0 when there
\* is no account
AccountState(found) ==
    CASE found = "missing" -> 0
      [] found = "uninitialized" -> 0
      [] found = "initialized" -> 1
      [] found = "frozen" -> 2

\* lines 244-248
CreateAssociatedTokenAccount(pair) ==
    [instruction |-> "create_associated_token_account", owner |-> pair[1], mint |-> pair[2]]

\* The JSON a method returns
Json(status, msg) == [status |-> status, msg |-> msg]

\* lines 203-228: the keys are decrypted and checked, the pool is loaded
TradeLoad ==
    /\ pc = "trade_load"
    /\ pc' = "trade_lookup"
    /\ UNCHANGED <<error, transactions, option_vars, outside_option>>

\* lines 235-252: one turn of the inner loop.  An account that is not there
\* or not initialized gets its create instruction added to the transaction.
TradeLookup ==
    /\ pc = "trade_lookup"
    /\ Len(atas) < Len(Lookups("trade"))
    /\ LET pair == Lookups("trade")[Len(atas) + 1]
       IN  /\ tx' = IF AccountState(ata[pair]) = 0
                       THEN Append(tx, CreateAssociatedTokenAccount(pair))
                       ELSE tx
           /\ atas' = Append(atas, pair)
    /\ UNCHANGED <<pc, error, transactions, method_call, ata, result, outside_option>>

\* lines 254-273: the trade instruction is added after the loops
TradeBuild ==
    /\ pc = "trade_lookup"
    /\ Len(atas) = Len(Lookups("trade"))
    /\ tx' = Append(tx, [instruction |-> "trade", accounts |-> atas])
    /\ pc' = "trade_send"
    /\ UNCHANGED <<error, transactions, method_call, ata, atas, result, outside_option>>

\* lines 275-283
TradeSend ==
    /\ pc = "trade_send"
    /\ transactions' = Append(transactions, Transaction(tx, ~method_call.skip_confirmation))
    /\ result' = Json("OK", "Trade successful")
    /\ pc' = "returned"
    /\ UNCHANGED <<error, method_call, ata, atas, tx, outside_option>>

\* An assertion, a read or the decoding of its answer raises before the
\* transaction is complete (lines 206-239): the exception leaves trade
TradeRaise ==
    /\ pc \in {"trade_load", "trade_lookup"}
    /\ pc' = "raised"
    /\ error' = "Exception"
    /\ UNCHANGED <<transactions, option_vars, outside_option>>

\* lines 284-286: send_transaction raises and the handler raises it again;
\* the cluster may or may not have taken the transaction.
TradeSendFail ==
    /\ pc = "trade_send"
    /\ \E taken \in BOOLEAN :
           transactions' = IF taken THEN Append(transactions, Transaction(tx, FALSE))
                                    ELSE transactions
    /\ pc' = "raised"
    /\ error' = "Exception"
    /\ UNCHANGED <<option_vars, outside_option>>

\* lines 322-336
CollectLoad ==
    /\ pc = "collect_load"
    /\ pc' = "collect_lookup"
    /\ UNCHANGED <<error, transactions, option_vars, outside_option>>

\* Variant: an account that is not there is created, as trade does
CollectLookup_Create ==
    /\ pc = "collect_lookup"
    /\ Len(atas) < Len(Lookups("collect"))
    /\ LET pair == Lookups("collect")[Len(atas) + 1]
       IN  /\ tx' = IF AccountState(ata[pair]) = 0
                       THEN Append(tx, CreateAssociatedTokenAccount(pair))
                       ELSE tx
           /\ atas' = Append(atas, pair)
    /\ UNCHANGED <<pc, error, transactions, method_call, ata, result, outside_option>>

\* lines 341-353: one turn of the loop.  An account that is not there or not
\* initialized ends collect with Exception().
CollectLookup ==
    /\ pc = "collect_lookup"
    /\ Len(atas) < Len(Lookups("collect"))
    /\ LET pair == Lookups("collect")[Len(atas) + 1]
       IN  IF AccountState(ata[pair]) = 0
           THEN /\ pc' = "raised"
                /\ error' = "Exception()"
                /\ UNCHANGED atas
           ELSE /\ atas' = Append(atas, pair)
                /\ UNCHANGED <<pc, error>>
    /\ UNCHANGED <<transactions, method_call, ata, tx, result, outside_option>>

\* lines 354-366
CollectBuild ==
    /\ pc = "collect_lookup"
    /\ Len(atas) = Len(Lookups("collect"))
    /\ tx' = Append(tx, [instruction |-> "collect", accounts |-> atas])
    /\ pc' = "collect_send"
    /\ UNCHANGED <<error, transactions, method_call, ata, atas, result, outside_option>>

\* lines 367-375
CollectSend ==
    /\ pc = "collect_send"
    /\ transactions' = Append(transactions, Transaction(tx, ~method_call.skip_confirmation))
    /\ result' = Json("OK", "Collect successful")
    /\ pc' = "returned"
    /\ UNCHANGED <<error, method_call, ata, atas, tx, outside_option>>

\* The loading of the pool, a read or the decoding of its answer raises
\* (lines 324-345)
CollectRaise ==
    /\ pc \in {"collect_load", "collect_lookup"}
    /\ pc' = "raised"
    /\ error' = "Exception"
    /\ UNCHANGED <<transactions, option_vars, outside_option>>

\* lines 376-379
CollectSendFail ==
    /\ pc = "collect_send"
    /\ \E taken \in BOOLEAN :
           transactions' = IF taken THEN Append(transactions, Transaction(tx, FALSE))
                                    ELSE transactions
    /\ pc' = "raised"
    /\ error' = "Exception"
    /\ UNCHANGED <<option_vars, outside_option>>

\* lines 424-433: PublicKey(to) raises for a destination that is no public
\* key, and the handler of line 462 returns
TopupAccounts ==
    /\ pc = "topup_accounts"
    /\ IF method_call.to = "valid"
          THEN /\ pc' = "topup_lamports"
               /\ UNCHANGED result
          ELSE /\ pc' = "returned"
               /\ result' = Json("BAD_REQUEST", "Initialized client")
    /\ UNCHANGED <<error, transactions, method_call, ata, atas, tx, outside_option>>

\* lines 435-447: the lamports are the rent exemption the cluster answers
\* with, or int(amount); the read or the conversion may raise, which the
\* handler of line 442 raises again into the handler of line 462.
TopupLamports ==
    /\ pc = "topup_lamports"
    /\ \E obtained \in IF method_call.amount = "None" THEN BOOLEAN
                       ELSE {method_call.amount = "number"} :
           IF obtained
           THEN /\ tx' = Append(tx, [instruction |-> "transfer"])
                /\ pc' = "topup_send"
                /\ UNCHANGED result
           ELSE /\ pc' = "returned"
                /\ result' = Json("BAD_REQUEST", "ERROR: couldn't process lamports")
                /\ UNCHANGED tx
    /\ UNCHANGED <<error, transactions, method_call, ata, atas, outside_option>>

\* lines 450-458
TopupSend ==
    /\ pc = "topup_send"
    /\ transactions' = Append(transactions, Transaction(tx, ~method_call.skip_confirmation))
    /\ result' = Json("OK", "Successfully sent")
    /\ pc' = "returned"
    /\ UNCHANGED <<error, method_call, ata, atas, tx, outside_option>>

\* Variant: the exception of send_transaction leaves topup, as it leaves
\* trade and collect
TopupSendFail_Raised ==
    /\ pc = "topup_send"
    /\ \E taken \in BOOLEAN :
           transactions' = IF taken THEN Append(transactions, Transaction(tx, FALSE))
                                    ELSE transactions
    /\ pc' = "raised"
    /\ error' = "Exception"
    /\ UNCHANGED <<option_vars, outside_option>>

\* lines 459-468: send_transaction raises, or its answer has not the shape
\* line 456 reads; the handler of line 459 raises again into the handler of
\* line 462, which returns.
TopupSendFail ==
    /\ pc = "topup_send"
    /\ \E taken \in BOOLEAN :
           transactions' = IF taken THEN Append(transactions, Transaction(tx, FALSE))
                                    ELSE transactions
    /\ pc' = "returned"
    /\ result' = Json("BAD_REQUEST",
                      "ERROR: Encountered exception while attempting to send transaction")
    /\ UNCHANGED <<error, method_call, ata, atas, tx, outside_option>>

----------------------------------------------------------------------------
(* Specifications *)

\* The planner applied to every enumerated snapshot
InitPlan ==
    InitGrid \/ InitAfterDeposit \/ InitScenarioA \/ InitScenarioB \/ InitScenarioC

NextPlan == RebalancePlan

SpecPlan == InitPlan /\ [][NextPlan]_vars

\* Whole passes, on the snapshots whose validators are empty or hold the
\* largest enumerated stake
InitPass ==
    \E n \in 0..MaxValidators :
      \E vals \in ValidatorLists(n, {0, MaxActiveUnits}, 0..1) :
        \E rs \in {0, 4}, behind \in {0, 1} :
            InitPassWith(vals, rs * Unit, 0, Unit, behind)

\* Scenario A from the first read on, the pool not yet updated
InitPassScenarioA ==
    InitPassWith([i \in 1..3 |-> ValidatorStakeInfo(i, 0, 0)], 300000000, 0, 2282880, 1)

Init == InitPass \/ InitPassScenarioA

Next ==
    \/ GetEpochInfo
    \/ GetStakePool
    \/ UpdateStakePool
    \/ UpdateStakePoolFail
    \/ GetStakePoolAgain
    \/ GetRentExemption
    \/ GetValidatorList
    \/ ReadFail
    \/ RebalancePlan
    \/ GatherDispatch
    \/ \E i \in DOMAIN task : TaskSubmit(i)
    \/ \E i \in DOMAIN task : TaskReadFail(i)
    \/ \E i \in DOMAIN task : TaskConfirm(i)
    \/ \E i \in DOMAIN task : TaskReject(i)
    \/ GatherRaise
    \/ GatherReturn
    \/ Close
    \/ RunTeardown

Spec == Init /\ [][Next]_vars

\* Pass after pass, one per epoch, every read and every action succeeding.
\* The event loop runs every task that can run, and the bot is started
\* again in every epoch.
InitEpochs ==
    \E n \in 1..MaxValidators :
      \E vals \in ValidatorLists(n, {0, MaxActiveUnits}, 0..1) :
        \E rs \in {0, 4}, retained \in {0, 2 * Unit}, rent \in RentValues :
            InitPassWith(vals, rs * Unit, retained, rent, 1)

NextEpochs ==
    \/ GetEpochInfo
    \/ GetStakePool
    \/ UpdateStakePool
    \/ GetStakePoolAgain
    \/ GetRentExemption
    \/ GetValidatorList
    \/ RebalancePlan
    \/ GatherDispatch
    \/ \E i \in DOMAIN task : TaskSubmit(i)
    \/ \E i \in DOMAIN task : TaskConfirm(i)
    \/ GatherReturn
    \/ Close
    \/ EpochRollover

SpecEpochs == InitEpochs /\ [][NextEpochs]_vars /\ WF_vars(NextEpochs)

\* update_stake_pool called on pools of every length up to MaxListLen, an
\* epoch after the pool was last updated (tests/test_update.py 27)
InitUpdate ==
    \E n \in 0..MaxListLen :
        /\ PoolIs([i \in 1..n |-> ValidatorStakeInfo(i, 0, 0)], 0, 0, Unit)
        /\ last_update_epoch = epoch - 1
        /\ account_total = PoolLamports
        /\ pc = "update_read"

NextUpdate ==
    \/ UpdateBuild
    \/ UpdateReadFail
    \/ UpdateSendInstruction
    \/ UpdateSendLastInstruction
    \/ UpdateSendBalance
    \/ UpdateSendFail
    \/ \E k \in DOMAIN transactions : ClusterConfirm(k)

SpecUpdate == InitUpdate /\ [][NextUpdate]_vars

\* rebalance() from its first line: the endpoint may or may not answer
InitRun ==
    \E n \in 0..MaxValidators :
      \E vals \in ValidatorLists(n, {0, MaxActiveUnits}, {0}) :
        \E rs \in {0, 4}, behind \in {0, 1} :
            /\ PoolIs(vals, rs * Unit, 0, Unit)
            /\ last_update_epoch = epoch - behind
            /\ account_total = PoolLamports - Unrecorded(vals, behind)
            /\ pc = "get_client"

NextRun ==
    \/ IsConnected
    \/ NotConnected
    \/ Next

SpecRun == InitRun /\ [][NextRun]_vars

\* No stake pool is involved
StakePoolIdle ==
    /\ validators = <<>>
    /\ reserve_lamports = 0
    /\ total_lamports = 0
    /\ account_total = 0
    /\ retained_reserve_lamports = 0
    /\ stake_rent_exemption = 0
    /\ epoch = FirstEpoch
    /\ last_update_epoch = FirstEpoch
    /\ num_increases = 0
    /\ lamports_per_validator = 0
    /\ futures = <<>>
    /\ task = <<>>
    /\ current_attempt = 0
    /\ connect_checks = 0
    /\ update_list_instructions = <<>>
    /\ transient_seed_suffix = <<>>
    /\ stake_calls = <<>>

\* The associated token accounts of the owners, each in any state
AtaOf(owners) ==
    [{<<o, Mints[k]>> : o \in owners, k \in DOMAIN Mints} -> AtaStates]

\* One call of topup, trade or collect (test.py 84-135), with the
\* destination, the amount and the token accounts in every state they can
\* be in
InitOption ==
    /\ StakePoolIdle
    /\ error = "none"
    /\ transactions = <<>>
    /\ atas = <<>>
    /\ tx = <<>>
    /\ result = NoResult
    /\ \E skip \in BOOLEAN :
         \/ \E to \in {"valid", "invalid"}, amount \in {"None", "number", "text"} :
              /\ method_call = [op |-> "topup", to |-> to, amount |-> amount,
                                skip_confirmation |-> skip]
              /\ ata = <<>>
              /\ pc = "topup_accounts"
         \/ \E found \in AtaOf({"buyer", "seller"}) :
              /\ method_call = [op |-> "trade", to |-> "none", amount |-> "none",
                                skip_confirmation |-> skip]
              /\ ata = found
              /\ pc = "trade_load"
         \/ \E found \in AtaOf({"collector"}) :
              /\ method_call = [op |-> "collect", to |-> "none", amount |-> "none",
                                skip_confirmation |-> skip]
              /\ ata = found
              /\ pc = "collect_load"

NextOption ==
    \/ TopupAccounts
    \/ TopupLamports
    \/ TopupSend
    \/ TopupSendFail
    \/ TradeLoad
    \/ TradeLookup
    \/ TradeBuild
    \/ TradeSend
    \/ TradeRaise
    \/ TradeSendFail
    \/ CollectLoad
    \/ CollectLookup
    \/ CollectBuild
    \/ CollectSend
    \/ CollectRaise
    \/ CollectSendFail

SpecOption == InitOption /\ [][NextOption]_vars

\* A pool of one or two validators that hold the minimum, with a funded
\* reserve, as tests/test_a_time_sensitive.py 16-29 sets it up; the staker
\* calls the actions on their own.
InitCalls ==
    \E n \in 1..2, rent \in RentValues :
      \E seeds \in [1..n -> 0..1] :
        /\ validators = [i \in 1..n |-> ValidatorStakeInfo(i, MinimumActive, 0)]
        /\ transient_seed_suffix = seeds
        /\ reserve_lamports = 8 * Unit
        /\ total_lamports = reserve_lamports + SumActive(validators)
        /\ account_total = total_lamports
        /\ retained_reserve_lamports = 0
        /\ stake_rent_exemption = rent
        /\ epoch = FirstEpoch
        /\ last_update_epoch = epoch
        /\ num_increases = 0
        /\ lamports_per_validator = 0
        /\ futures = <<>>
        /\ task = <<>>
        /\ error = "none"
        /\ current_attempt = 0
        /\ connect_checks = 0
        /\ transactions = <<>>
        /\ update_list_instructions = <<>>
        /\ stake_calls = <<>>
        /\ OptionIdle
        /\ pc = "calls"

\* Amounts the staker moves with one call
CallLamports == {Unit, 2 * Unit}

NextCalls ==
    \/ \E i \in DOMAIN validators, lamports \in CallLamports,
          ephemeral_stake_seed \in EphemeralSeeds :
            IncreaseValidatorStake(i, lamports, ephemeral_stake_seed)
    \/ \E i \in DOMAIN validators, lamports \in CallLamports,
          ephemeral_stake_seed \in EphemeralSeeds :
            DecreaseValidatorStake(i, lamports, ephemeral_stake_seed)

SpecCalls == InitCalls /\ [][NextCalls]_vars

----------------------------------------------------------------------------
(* Properties of the plan *)

\* The planning block ran to its end (line 100) and left a plan in futures
PlanComputed ==
    /\ pc \notin SnapshotReads \cup {"get_client", "update_stake_pool", "plan"}
    /\ error \notin SnapshotReads
                     \cup {CouldNotConnect, "update_stake_pool", "ZeroDivisionError"}

UsableTotal == total_lamports - retained_reserve_lamports

Movable(i) == validators[i].transient_stake_lamports = 0

Active(i) == validators[i].active_stake_lamports

Vote(i) == validators[i].vote_account_address

Emitted(kind, vote) ==
    \E k \in DOMAIN futures :
        futures[k].kind = kind /\ futures[k].validator_vote = vote

RECURSIVE SumLamports(_, _, _)
SumLamports(fs, kind, k) ==
    IF k > Len(fs) THEN 0
    ELSE (IF fs[k].kind = kind THEN fs[k].lamports ELSE 0) + SumLamports(fs, kind, k + 1)

NumEmitted(kind) == Cardinality({k \in DOMAIN futures : futures[k].kind = kind})

\* C1: with an empty validator list the pass produces an empty plan and
\* finishes planning without a fault.
C1_EmptyListNoFault ==
    (Len(validators) = 0 /\ pc # "plan") => (error = "none" /\ futures = <<>>)

\* C2: when the retained reserve is larger than the pool's total lamports
\* the plan is empty; here for the non-empty validator lists, for which the
\* planning block does run to its end.
C2_RetainedAboveTotalEmptyPlan ==
    (retained_reserve_lamports > total_lamports /\ Len(validators) >= 1 /\ PlanComputed)
        => futures = <<>>

\* C3 as stated (P2, conservation): for any snapshot the increases minus the
\* decreases plus the rent of the counted increases stay within the usable
\* total.
C3_ConservationAnySnapshot ==
    PlanComputed =>
        SumLamports(futures, "increase", 1) - SumLamports(futures, "decrease", 1)
            + num_increases * stake_rent_exemption <= UsableTotal

\* C3 as amended: the same bound, for the snapshots whose usable total
\* covers the rent of the counted increases (usable_total - num_increases *
\* stake_rent_exemption >= 0, so that the corrected target is not negative).
C3_Conservation ==
    (PlanComputed /\ UsableTotal - num_increases * stake_rent_exemption >= 0) =>
        SumLamports(futures, "increase", 1) - SumLamports(futures, "decrease", 1)
            + num_increases * stake_rent_exemption <= UsableTotal

\* An increase and a decrease in one plan, next to a busy validator, with
\* the rent of the counted increases covered
C3_Witness ==
    /\ pc = "gather"
    /\ UsableTotal - num_increases * stake_rent_exemption >= 0
    /\ num_increases >= 1
    /\ NumEmitted("increase") >= 1
    /\ NumEmitted("decrease") >= 1
    /\ \E i \in DOMAIN validators : ~Movable(i)

\* C4: the lamports the emitted increases take out of the reserve (amount
\* plus rent exemption each) are at most the reserve less the retained
\* amount, where total_lamports = reserve + active + transient.
C4_ReserveFundsIncreases ==
    (PlanComputed
        /\ total_lamports = reserve_lamports + SumActive(validators) + SumTransient(validators)
        /\ NumEmitted("increase") >= 1)
    => SumLamports(futures, "increase", 1) + NumEmitted("increase") * stake_rent_exemption
           <= reserve_lamports - retained_reserve_lamports

\* C5 (P3, busy-skip): a validator with transient lamports gets neither an
\* increase nor a decrease, whatever its active stake, and the pass does not
\* fail on it.
C5_BusySkip ==
    pc # "plan" =>
        \A i \in DOMAIN validators :
            ~Movable(i) =>
                /\ error = "none"
                /\ ~Emitted("increase", Vote(i))
                /\ ~Emitted("decrease", Vote(i))

\* A busy validator far above the target and one far below it, skipped in a
\* plan that acts on a third validator
C5_Witness ==
    /\ pc = "gather"
    /\ futures # <<>>
    /\ \E i \in DOMAIN validators :
           ~Movable(i) /\ Active(i) - lamports_per_validator > stake_rent_exemption
    /\ \E i \in DOMAIN validators :
           ~Movable(i) /\ lamports_per_validator - Active(i) >= MINIMUM_INCREASE_LAMPORTS

\* C6 (P4, dust suppression): for a movable validator a decrease is emitted
\* exactly when active - target > stake_rent_exemption, and an increase
\* exactly when target - active >= MINIMUM_INCREASE_LAMPORTS, each for that
\* difference, whatever was skipped for the other validators.
C6_DustSuppression ==
    PlanComputed =>
        \A i \in DOMAIN validators :
            Movable(i) =>
                /\ Emitted("decrease", Vote(i))
                       <=> (Active(i) - lamports_per_validator > stake_rent_exemption)
                /\ Emitted("increase", Vote(i))
                       <=> (lamports_per_validator - Active(i) >= MINIMUM_INCREASE_LAMPORTS)

\* A decrease of exactly the rent exemption skipped and an increase of
\* exactly the minimum emitted, in one plan
C6_Witness ==
    /\ pc = "gather"
    /\ \E i \in DOMAIN validators :
           /\ Movable(i)
           /\ Active(i) - lamports_per_validator = stake_rent_exemption
           /\ ~Emitted("decrease", Vote(i))
    /\ \E j \in DOMAIN validators :
           /\ Movable(j)
           /\ lamports_per_validator - Active(j) = MINIMUM_INCREASE_LAMPORTS
           /\ Emitted("increase", Vote(j))

\* Every validator is movable and holds exactly `amount`
AllMovableAt(amount) ==
    \A i \in DOMAIN validators : Movable(i) /\ Active(i) = amount

\* C7 (P1, convergence no-op): with at least one validator, none of them
\* busy and each at usable_total / n, the plan is empty.
C7_ConvergenceNoOp ==
    (pc # "plan" /\ Len(validators) >= 1
        /\ AllMovableAt(UsableTotal \div Len(validators)))
    => (error = "none" /\ futures = <<>>)

\* Two or more validators at the even split of a pool that retains a reserve
C7_Witness ==
    /\ pc = "gather"
    /\ Len(validators) >= 2
    /\ retained_reserve_lamports > 0
    /\ Active(1) > 0
    /\ AllMovableAt(UsableTotal \div Len(validators))
    /\ futures = <<>>

\* C8 (idempotent re-planning): if every validator is movable and sits at
\* the corrected target of an earlier pass over the same usable total, rent
\* exemption and validator count (whatever number k of increases that pass
\* counted), the plan is empty.
C8_ReplanIdempotent ==
    (pc # "plan" /\ Len(validators) >= 1
        /\ \E k \in 0..Len(validators) :
               AllMovableAt((UsableTotal - k * stake_rent_exemption) \div Len(validators)))
    => (error = "none" /\ futures = <<>>)

\* Scenario B: three validators at 97,717,120 under a provisional target of
\* 100,000,000
C8_Witness ==
    /\ pc = "gather"
    /\ Len(validators) = 3
    /\ UsableTotal = 300000000
    /\ stake_rent_exemption = 2282880
    /\ AllMovableAt(97717120)
    /\ UsableTotal \div 3 > 97717120
    /\ num_increases = 3
    /\ futures = <<>>

IsScenarioA ==
    /\ Len(validators) = 3
    /\ AllMovableAt(0)
    /\ UsableTotal = 300000000
    /\ stake_rent_exemption = 2282880
    /\ retained_reserve_lamports = 0

\* C9 (Scenario A): three empty validators, 300,000,000 usable lamports and
\* a rent exemption of 2,282,880 give num_increases = 3, the target
\* 97,717,120 and exactly three increases of 97,717,120, one per validator.
C9_ScenarioA ==
    (IsScenarioA /\ pc # "plan") =>
        /\ error = "none"
        /\ num_increases = 3
        /\ lamports_per_validator = 97717120
        /\ Len(futures) = 3
        /\ \A i \in DOMAIN validators :
               \E k \in DOMAIN futures : futures[k] = IncreaseCall(Vote(i), 97717120)

C9_Witness ==
    /\ IsScenarioA
    /\ pc = "gather"
    /\ NumEmitted("increase") = 3

\* C14: in every plan each validator appears in at most one action, and
\* every action is addressed to a validator of the list, so no two actions
\* of a pass target the same validator or the same transient account.
C14_OneActionPerValidator ==
    PlanComputed =>
        /\ \A k \in DOMAIN futures :
               \E i \in DOMAIN validators : futures[k].validator_vote = Vote(i)
        /\ \A i \in DOMAIN validators :
               Cardinality({k \in DOMAIN futures :
                               futures[k].validator_vote = Vote(i)}) <= 1

\* A plan of three actions, increases and a decrease among them
C14_Witness ==
    /\ pc = "gather"
    /\ Len(futures) = 3
    /\ NumEmitted("increase") = 2
    /\ NumEmitted("decrease") = 1

\* The lamports of the action the plan holds for validator i
LamportsFor(i) ==
    LET k == CHOOSE k \in DOMAIN futures : futures[k].validator_vote = Vote(i)
    IN  futures[k].lamports

\* Every validator is movable and the plan increases each of them
AllIncreased ==
    \A i \in DOMAIN validators : Movable(i) /\ Emitted("increase", Vote(i))

\* What the increases of the plan take out of the reserve
IncreasesWithRent ==
    SumLamports(futures, "increase", 1) + NumEmitted("increase") * stake_rent_exemption

\* C17 (full deployment): with nothing retained and every one of the n >= 1
\* validators movable and increased, the stake the validators end with
\* (active + increase + rent exemption, summed) is the usable total less a
\* remainder r with 0 <= r < n; the reserve is left with that remainder
\* alone, and all validators end with the same stake.
C17_FullDeployment ==
    (PlanComputed /\ retained_reserve_lamports = 0 /\ Len(validators) >= 1
        /\ AllIncreased)
    => LET r == UsableTotal - (SumActive(validators) + IncreasesWithRent)
       IN  /\ 0 <= r
           /\ r < Len(validators)
           /\ reserve_lamports - IncreasesWithRent = r
           /\ \A i, j \in DOMAIN validators :
                  Active(i) + LamportsFor(i) = Active(j) + LamportsFor(j)

\* Three validators with different stakes, all increased, and a remainder
\* left in the reserve
C17_Witness ==
    /\ pc = "gather"
    /\ retained_reserve_lamports = 0
    /\ Len(validators) = 3
    /\ AllIncreased
    /\ Active(1) # Active(2)
    /\ UsableTotal - (SumActive(validators) + IncreasesWithRent) > 0

\* Every action of the plan moves its validator onto lamports_per_validator
ActionsLandOnTarget ==
    \A k \in DOMAIN futures :
        \A i \in DOMAIN validators :
            futures[k].validator_vote = Vote(i) =>
                /\ futures[k].kind = "increase" =>
                       Active(i) + futures[k].lamports = lamports_per_validator
                /\ futures[k].kind = "decrease" =>
                       Active(i) - futures[k].lamports = lamports_per_validator

\* The retained reserve is total - m * n for the amount m >= 0, and every
\* validator holds more than m
AllAbove(m) ==
    /\ Len(validators) >= 1
    /\ m >= 0
    /\ retained_reserve_lamports = total_lamports - m * Len(validators)
    /\ \A i \in DOMAIN validators : Active(i) > m

\* C18 as stated: every emitted action moves its validator exactly onto the
\* corrected target (active + lamports for an increase, active - lamports
\* for a decrease), so that with a retained reserve of total - m * n and all
\* validators above m every validator is decreased to exactly m.
C18_EveryValidatorDecreasedToM ==
    PlanComputed =>
        /\ ActionsLandOnTarget
        /\ LET m == UsableTotal \div Len(validators)
           IN  AllAbove(m) =>
                   \A i \in DOMAIN validators :
                       /\ Emitted("decrease", Vote(i))
                       /\ Active(i) - LamportsFor(i) = m

\* C18 as amended: every emitted action moves its validator exactly onto the
\* corrected target, so that with a retained reserve of total - m * n and
\* all validators above m the target is m and every movable validator more
\* than the rent exemption above m is decreased to exactly m; a busy
\* validator and one within the rent exemption of m are left above m.
C18_ActionsLandOnTarget ==
    PlanComputed =>
        /\ ActionsLandOnTarget
        /\ LET m == UsableTotal \div Len(validators)
           IN  AllAbove(m) =>
                   /\ lamports_per_validator = m
                   /\ \A i \in DOMAIN validators :
                          (Movable(i) /\ Active(i) - m > stake_rent_exemption) =>
                              /\ Emitted("decrease", Vote(i))
                              /\ Active(i) - LamportsFor(i) = m
                   /\ \A i \in DOMAIN validators :
                          (~Movable(i) \/ Active(i) - m <= stake_rent_exemption) =>
                              ~Emitted("decrease", Vote(i))

\* All validators above m > 0: one is decreased to m, one sits within the
\* rent exemption of m and is left alone
C18_Witness ==
    /\ pc = "gather"
    /\ UsableTotal > 0
    /\ AllAbove(UsableTotal \div Len(validators))
    /\ \E i \in DOMAIN validators :
           /\ Emitted("decrease", Vote(i))
           /\ Active(i) - LamportsFor(i) = UsableTotal \div Len(validators)
    /\ \E j \in DOMAIN validators :
           /\ Movable(j)
           /\ Active(j) - UsableTotal \div Len(validators) <= stake_rent_exemption
           /\ ~Emitted("decrease", Vote(j))

\* C20: for n >= 1 validators the target is
\* (total - retained - num_increases * rent) // n, where n counts every
\* validator of the list, busy ones included, and num_increases counts the
\* validators with no transient lamports whose active stake is below the
\* provisional target (total - retained) // n; the correction is applied
\* once, the count is not taken again against the corrected target.
C20_CorrectedTarget ==
    (PlanComputed /\ Len(validators) >= 1) =>
        LET n == Len(validators)
            provisional == (total_lamports - retained_reserve_lamports) \div n
            k == Cardinality({i \in DOMAIN validators :
                     /\ validators[i].transient_stake_lamports = 0
                     /\ validators[i].active_stake_lamports < provisional})
        IN  /\ num_increases = k
            /\ lamports_per_validator =
                   (total_lamports - retained_reserve_lamports
                        - k * stake_rent_exemption) \div n

\* A plan over a list with a busy validator below the provisional target
\* (in n, not in num_increases) and a movable one between the corrected and
\* the provisional target (in num_increases, though not below the corrected
\* target)
C20_Witness ==
    /\ pc = "gather"
    /\ num_increases >= 1
    /\ \E i \in DOMAIN validators :
           ~Movable(i) /\ Active(i) < UsableTotal \div Len(validators)
    /\ \E j \in DOMAIN validators :
           /\ Movable(j)
           /\ lamports_per_validator <= Active(j)
           /\ Active(j) < UsableTotal \div Len(validators)

\* C23: every emitted decrease asks for at most the active stake of its
\* validator and every emitted action asks for more than zero lamports, on
\* every snapshot, those with a negative corrected usable total included.
C23_ActionsWithinStake ==
    PlanComputed =>
        \A k \in DOMAIN futures :
            /\ futures[k].lamports > 0
            /\ \A i \in DOMAIN validators :
                   (futures[k].kind = "decrease" /\ futures[k].validator_vote = Vote(i))
                       => futures[k].lamports <= Active(i)

\* C24: with a rent exemption >= 0 the corrected target is not above the
\* provisional one, so the plan holds at most num_increases increases and
\* the rent set aside, num_increases * rent, covers the rent the emitted
\* increases consume.
C24_CorrectionCoversIncreases ==
    (PlanComputed /\ Len(validators) >= 1 /\ stake_rent_exemption >= 0) =>
        /\ lamports_per_validator <= UsableTotal \div Len(validators)
        /\ NumEmitted("increase") <= num_increases
        /\ NumEmitted("increase") * stake_rent_exemption
               <= num_increases * stake_rent_exemption

\* Two validators are counted, the corrected target is below the provisional
\* one, and only one of the two is increased
C24_Witness ==
    /\ pc = "gather"
    /\ num_increases >= 2
    /\ lamports_per_validator < UsableTotal \div Len(validators)
    /\ NumEmitted("increase") >= 1
    /\ NumEmitted("increase") < num_increases

----------------------------------------------------------------------------
(* Properties of the fan-out *)

\* C10: when the transaction of one action of the pass fails, every other
\* action of the pass is still submitted and runs to its own success or
\* failure: none is cancelled.
C10_PartialFailureIsolated ==
    \A i, j \in DOMAIN task :
        (task[i].status = "failed" /\ task[i].submitted)
            => task[j].status # "cancelled"

\* C11: a pass reaches 'Done' and the close of the client only after every
\* dispatched action has confirmed or failed, and the failure of an action
\* never ends the pass before that: no exception of an action leaves
\* rebalance().
C11_FailureNeverAbortsPass ==
    /\ pc \in {"done", "closed"} =>
           \A i \in DOMAIN task : task[i].status \in {"confirmed", "failed"}
    /\ (\E i \in DOMAIN task : task[i].status = "failed") =>
           pc \notin {"raised", "exited"}

\* C12: no retry inside a pass.  The action of a planned entry submits at
\* most one transaction: once its transaction is submitted (and whether it
\* is then confirmed or rejected) the action never submits again.
C12_NoRetry ==
    [][\A i \in DOMAIN task :
          (i \in DOMAIN task' /\ task[i].submitted) =>
              ~(task[i].status # "sending" /\ task'[i].status = "sending")]_vars

\* The pass has ended on a rejected transaction, next to a confirmed one
C12_Witness ==
    /\ pc = "exited"
    /\ \E i \in DOMAIN task : task[i].status = "failed" /\ task[i].submitted
    /\ \E j \in DOMAIN task : task[j].status = "confirmed"

----------------------------------------------------------------------------
(* Properties of the reads *)

\* C13: when one of the reads that build the snapshot fails (epoch info,
\* pool account, rent exemption, validator list) the error leaves the pass:
\* rebalance() has ended, no plan was built and no increase or decrease was
\* dispatched, let alone submitted.
C13_ReadFailurePropagates ==
    error \in SnapshotReads =>
        /\ pc \in {"raised", "exited"}
        /\ futures = <<>>
        /\ task = <<>>

\* The read of the pool account after the update failed, over a pool with
\* an empty validator next to a full reserve: the pass has ended
C13_Witness ==
    /\ error = "get_stake_pool_again"
    /\ pc = "exited"
    /\ last_update_epoch = epoch
    /\ reserve_lamports > 0
    /\ \E i \in DOMAIN validators : Movable(i) /\ Active(i) = 0

----------------------------------------------------------------------------
(* Properties of the concurrent actions *)

\* The lamports the confirmed actions of the pass have taken out of the
\* reserve, from task k on
RECURSIVE ConfirmedDebits(_)
ConfirmedDebits(k) ==
    IF k > Len(task) THEN 0
    ELSE (IF task[k].status = "confirmed"
             THEN ReserveDebit(futures[k], stake_rent_exemption) ELSE 0)
         + ConfirmedDebits(k + 1)

\* The reserve as it was when the actions were dispatched
ReserveAtDispatch == reserve_lamports + ConfirmedDebits(1)

\* C15: the actions of a pass share no mutable state, so the outcome does
\* not depend on how they interleave: a submitted action that the reserve
\* could pay for when the pass dispatched it can still be paid for now,
\* whichever of the other actions were confirmed before it.
C15_OutcomeIndependentOfInterleaving ==
    \A i \in DOMAIN task :
        (task[i].status = "sending"
            /\ ReserveDebit(futures[i], stake_rent_exemption) <= ReserveAtDispatch)
        => ReserveCovers(futures[i])

----------------------------------------------------------------------------
(* Properties of repeated passes *)

\* C19 (convergence without thrashing): with the total, the retained
\* reserve and the rent exemption constant and n >= 1, when pass after pass
\* completes with all its actions succeeding, each followed by an epoch
\* rollover, the plans are empty from some pass on.
C19_Convergence ==
    ([]<>(pc = "closed")) => <>[](PlanComputed => futures = <<>>)

\* A completed pass with an empty plan, in a later epoch, over validators
\* that earlier passes have moved off the amount grid
C19_Witness ==
    /\ pc = "closed"
    /\ futures = <<>>
    /\ last_update_epoch = epoch
    /\ epoch = MaxEpoch
    /\ \E i \in DOMAIN validators : Active(i) % Unit # 0
    /\ \E i, j \in DOMAIN validators : Active(i) # Active(j)

----------------------------------------------------------------------------
(* Properties of update_stake_pool *)

\* The instructions of the chunks are built (line 446 is passed)
UpdateBuilt ==
    \/ pc \in {"update_send_list", "update_send_balance", "updated"}
    \/ pc = "raised" /\ error = "RPCException"

\* Position of the i-th validator: its chunk, counted from 0, and its place
\* in the chunk, counted from 1
ChunkOf(i) == (i - 1) \div MAX_VALIDATORS_TO_UPDATE

PlaceOf(i) == ((i - 1) % MAX_VALIDATORS_TO_UPDATE) + 1

\* The k-th instruction lists validator v as its j-th address pair
ListsAt(k, j, v) ==
    /\ k \in DOMAIN update_list_instructions
    /\ 2 * j \in DOMAIN update_list_instructions[k].validator_and_transient_stake_pairs
    /\ update_list_instructions[k].validator_and_transient_stake_pairs[2 * j - 1]
           = ValidatorStakeAddress(v)
    /\ update_list_instructions[k].validator_and_transient_stake_pairs[2 * j]
           = TransientStakeAddress(v)

\* C26: update_stake_pool covers the validator list exactly.  The list is
\* split in list order into consecutive chunks of at most
\* MAX_VALIDATORS_TO_UPDATE validators, every validator is listed in exactly
\* one update_validator_list_balance instruction as one pair of its validator
\* and transient stake addresses, and the k-th chunk, k counted from 0,
\* carries start_index = 5 * k.
C26_ChunksCoverList ==
    UpdateBuilt =>
        /\ Len(update_list_instructions)
               = (Len(validators) + MAX_VALIDATORS_TO_UPDATE - 1) \div MAX_VALIDATORS_TO_UPDATE
        /\ \A k \in DOMAIN update_list_instructions :
               /\ update_list_instructions[k].start_index = 5 * (k - 1)
               /\ Len(update_list_instructions[k].validator_and_transient_stake_pairs)
                      \in {2 * m : m \in 1..MAX_VALIDATORS_TO_UPDATE}
               /\ (k < Len(update_list_instructions)) =>
                      Len(update_list_instructions[k].validator_and_transient_stake_pairs)
                          = 2 * MAX_VALIDATORS_TO_UPDATE
        /\ \A i \in DOMAIN validators :
               \A k \in DOMAIN update_list_instructions, j \in 1..MAX_VALIDATORS_TO_UPDATE :
                   ListsAt(k, j, validators[i]) <=> (k = ChunkOf(i) + 1 /\ j = PlaceOf(i))

C26_Witness ==
    /\ pc = "updated"
    /\ Len(validators) = 11
    /\ Len(update_list_instructions) = 3
    /\ update_list_instructions[3].start_index = 10
    /\ ListsAt(2, 2, validators[7])

\* The k-th transaction sent is the one that closes the update
IsBalance(k) == transactions[k].instructions = BalanceInstructions

\* C27: in update_stake_pool the transaction holding update_stake_pool_balance
\* and cleanup_removed_validator_entries is submitted exactly once, after
\* every update of a chunk of the validator list has been submitted and
\* confirmed; it is submitted also when the validator list is empty, and
\* then no list update is sent.
C27_BalanceOnceAfterConfirmedChunks ==
    /\ Cardinality({k \in DOMAIN transactions : IsBalance(k)}) <= 1
    /\ (pc = "updated") => IsBalance(Len(transactions))
    /\ (pc = "updated") => Len(transactions) = Len(update_list_instructions) + 1
    /\ (pc = "updated" /\ validators = <<>>) => Len(transactions) = 1
    /\ \A k \in DOMAIN transactions :
           IsBalance(k) => \A j \in 1..(k - 1) : transactions[j].confirmed

----------------------------------------------------------------------------
(* Properties of the reads *)

\* C25: a plan is computed only from an updated pool.  If the pool's
\* last_update_epoch differs from the epoch read at the start of the pass,
\* update_stake_pool runs and the pool account is read again, and the
\* total_lamports the plan uses is the one read after the update; if the two
\* epochs are equal no update transaction is sent.
C25_PlanFromUpdatedPool ==
    [][/\ PlanComputed' =>
              /\ last_update_epoch' = epoch'
              /\ total_lamports' = account_total'
       /\ (transactions' # transactions) =>
              /\ pc = "update_stake_pool"
              /\ last_update_epoch # epoch
       /\ (pc = "get_stake_pool" /\ pc' \notin {"update_stake_pool", "raised"}) =>
              last_update_epoch = epoch]_vars

C25_Witness ==
    /\ pc = "gather"
    /\ transactions # <<>>
    /\ SumActive(validators) > 0
    /\ total_lamports = account_total
    /\ total_lamports = PoolLamports

----------------------------------------------------------------------------
(* Properties of get_client *)

\* C28: get_client always terminates.  It returns as soon as a connectivity
\* check succeeds, and if the endpoint never becomes connected it raises
\* 'Could not connect' after exactly 10 failed attempts, having waited at
\* most 10 times one second.
C28_RaisesAfterTenFailedChecks ==
    /\ current_attempt <= total_attempts
    /\ (pc # "get_client" /\ error # CouldNotConnect) =>
           connect_checks = current_attempt + 1
    /\ (error = CouldNotConnect) => connect_checks = total_attempts

----------------------------------------------------------------------------
(* Properties of the binary option client *)

\* C22: topup never raises to its caller.  On success it returns a JSON
\* result with status OK and the transaction; on any failure (a bad
\* destination, lamports that cannot be obtained, an error of the
\* transaction's send) it returns a JSON result with status BAD_REQUEST.
C22_TopupNeverRaises ==
    (method_call.op = "topup") =>
        /\ pc # "raised"
        /\ error = "none"
        /\ (pc = "returned") => result.status \in {"OK", "BAD_REQUEST"}
        /\ (pc # "returned") => result = NoResult
        /\ (result.status = "OK") =>
               /\ method_call.to = "valid"
               /\ method_call.amount # "text"
               /\ Len(transactions) = 1
               /\ transactions[1].instructions = <<[instruction |-> "transfer"]>>
        /\ (pc = "returned" /\ method_call.to = "invalid") =>
               result.status = "BAD_REQUEST" /\ transactions = <<>>
        /\ (pc = "returned" /\ method_call.amount = "text") =>
               result.status = "BAD_REQUEST" /\ transactions = <<>>
        /\ (pc = "returned" /\ transactions = <<>>) => result.status = "BAD_REQUEST"

C22_Witness ==
    /\ method_call.op = "topup"
    /\ pc = "returned"
    /\ result.status = "BAD_REQUEST"
    /\ tx # <<>>
    /\ transactions = <<>>

\* The accounts of the owners that get_account_info finds absent or not
\* initialized
Absent == {pair \in DOMAIN ata : AccountState(ata[pair]) = 0}

\* The places of tx that hold the create instruction of the pair
CreatesOf(pair) ==
    {k \in DOMAIN tx : tx[k] = CreateAssociatedTokenAccount(pair)}

\* C29: collect submits no transaction unless all three associated token
\* accounts of the collector (long mint, short mint, escrow mint) exist and
\* are initialized; if any is missing or uninitialized it raises before
\* sending.  trade adds a create instruction for each missing account of
\* buyer and seller and places the trade instruction last in the same
\* transaction.
C29_CollectRequiresAccounts ==
    /\ (method_call.op = "collect" /\ Absent # {}) =>
           /\ transactions = <<>>
           /\ pc \in {"collect_load", "collect_lookup", "raised"}
           /\ result = NoResult
    /\ (method_call.op = "collect" /\ transactions # <<>>) =>
           /\ Len(transactions) = 1
           /\ Len(transactions[1].instructions) = 1
           /\ transactions[1].instructions[1].instruction = "collect"
    /\ (method_call.op = "trade" /\ pc \in {"trade_send", "returned"}) =>
           /\ Len(tx) = Cardinality(Absent) + 1
           /\ tx[Len(tx)].instruction = "trade"
           /\ \A pair \in DOMAIN ata :
                  Cardinality(CreatesOf(pair)) = IF pair \in Absent THEN 1 ELSE 0
    /\ (method_call.op = "trade" /\ transactions # <<>>) =>
           /\ Len(transactions) = 1
           /\ transactions[1].instructions = tx
           /\ tx[Len(tx)].instruction = "trade"

C29_Witness ==
    /\ method_call.op = "collect"
    /\ pc = "raised"
    /\ error = "Exception()"
    /\ Len(atas) = 2
    /\ ata[<<"collector", "escrow">>] = "uninitialized"
    /\ transactions = <<>>

----------------------------------------------------------------------------
(* Properties of the seeds *)

\* The lamports the calls from the k-th on put into the transient account
\* of the vote account with the seed
RECURSIVE Credited(_, _, _)
Credited(vote, seed, k) ==
    IF k > Len(stake_calls) THEN 0
    ELSE (IF stake_calls[k].validator_vote = vote
             /\ stake_calls[k].transient_stake_seed = seed
          THEN stake_calls[k].credited ELSE 0)
         + Credited(vote, seed, k + 1)

\* No decrease was called on the vote account
NeverDecreased(vote) ==
    \A k \in DOMAIN stake_calls :
        ~(stake_calls[k].kind = "decrease" /\ stake_calls[k].validator_vote = vote)

\* C21: an increase or decrease issued without an ephemeral_stake_seed uses
\* the validator's current transient_seed_suffix + 1 as transient seed, never
\* the seed of the existing transient account; one issued with an
\* ephemeral_stake_seed uses the current transient_seed_suffix unchanged, so
\* that a second increase in the same epoch adds to the same transient
\* account, whose lamports are the sum of both amounts and one rent exemption
\* for each, and the active stake is unchanged within the epoch.
C21_TransientSeedChoice ==
    /\ \A k \in DOMAIN stake_calls :
           stake_calls[k].transient_stake_seed =
               IF stake_calls[k].ephemeral THEN stake_calls[k].suffix_before
                                           ELSE stake_calls[k].suffix_before + 1
    /\ (pc = "calls") =>
           \A i \in DOMAIN validators :
               /\ validators[i].transient_stake_lamports =
                      Credited(Vote(i), transient_seed_suffix[Vote(i)], 1)
               /\ NeverDecreased(Vote(i)) => Active(i) = MinimumActive

C21_Witness ==
    /\ Len(stake_calls) >= 2
    /\ stake_calls[1].kind = "increase" /\ ~stake_calls[1].ephemeral
    /\ stake_calls[2].kind = "increase" /\ stake_calls[2].ephemeral
    /\ stake_calls[1].validator_vote = 1 /\ stake_calls[2].validator_vote = 1
    /\ stake_calls[2].transient_stake_seed = stake_calls[1].transient_stake_seed
    /\ validators[1].transient_stake_lamports =
           Unit + 2 * Unit + 2 * stake_rent_exemption
    /\ validators[1].active_stake_lamports = MinimumActive

====
